---- MODULE Spec2Model ----
(***************************************************************************)
(* A model of dmark-go: the text codec of the seven enumerations of a      *)
(* DMARC aggregate report (package dmark), the XML-to-JSON driver and the  *)
(* report reader of cmd/reports2html.                                      *)
(*                                                                         *)
(* A Go string / []byte is a sequence of one-character strings.            *)
(***************************************************************************)
EXTENDS Integers, Sequences, FiniteSets, TLC

VARIABLES
    target,    \* the enumeration-typed variable the codec methods are called on
    ret,       \* what the last codec call returned: [text, err]
    call,      \* the last codec call: [op, arg, pre, fed]
    doc,       \* the document on the driver's standard input
    feedback,  \* the dmark.Feedback the driver decoded
    out,       \* what the driver printed / returned
    dpc,       \* the driver's position
    fs,        \* the file system: directory -> file name -> content
    dir,       \* readReports' argument
    cwd,       \* the process's working directory
    files,     \* the listing ioutil.ReadDir returned
    idx,       \* the position of readReports' loop in the listing
    result,    \* readReports' result slice
    rerr,      \* the error readReports returned
    reads,     \* the paths readReports has read so far
    rpc        \* readReports' position

codecVars == <<target, ret, call>>
driverVars == <<doc, feedback, out, dpc>>
readerVars == <<fs, dir, cwd, files, idx, result, rerr, reads, rpc>>
vars == <<target, ret, call, doc, feedback, out, dpc,
          fs, dir, cwd, files, idx, result, rerr, reads, rpc>>

----------------------------------------------------------------------------
(* Bounds *)

\* Letter-case patterns tried on every input word: a pattern is a number
\* below 2^MaskBits, bit ((i-1) % MaskBits) of it puts letter i in upper case.
MaskBits == 2

\* How far outside an enumeration's members a numeric conversion E(n) goes.
CastSlack == 1

----------------------------------------------------------------------------
(* Strings *)

UpperLetters ==
    <<"A","B","C","D","E","F","G","H","I","J","K","L","M",
      "N","O","P","Q","R","S","T","U","V","W","X","Y","Z">>

LowerLetters ==
    <<"a","b","c","d","e","f","g","h","i","j","k","l","m",
      "n","o","p","q","r","s","t","u","v","w","x","y","z">>

\* LATIN CAPITAL LETTER I WITH DOT ABOVE, a rune outside ASCII whose lower
\* case unicode.ToLower gives as the ASCII letter i.
CapitalDottedI == "U+0130"

\* The runes of the model: the ASCII letters, the other characters the
\* words and file names below are written with, and CapitalDottedI.
Runes ==
    {UpperLetters[i] : i \in 1..Len(UpperLetters)}
        \cup {LowerLetters[i] : i \in 1..Len(LowerLetters)}
        \cup {"_", ".", " ", CapitalDottedI}

IndexIn(seq, c) == CHOOSE i \in 1..Len(seq) : seq[i] = c

IsIn(seq, c) == \E i \in 1..Len(seq) : seq[i] = c

\* unicode.ToLower and unicode.ToUpper, tabulated over Runes
LowerCase ==
    [c \in Runes |->
        IF IsIn(UpperLetters, c) THEN LowerLetters[IndexIn(UpperLetters, c)]
        ELSE IF c = CapitalDottedI THEN "i"
        ELSE c]

UpperCase ==
    [c \in Runes |->
        IF IsIn(LowerLetters, c) THEN UpperLetters[IndexIn(LowerLetters, c)]
        ELSE c]

ToLowerRune(c) == LowerCase[c]

ToUpperRune(c) == UpperCase[c]

\* strings.ToLower
ToLower(s) == [i \in 1..Len(s) |-> ToLowerRune(s[i])]

\* strings.HasSuffix
HasSuffix(s, suffix) ==
    /\ Len(s) >= Len(suffix)
    /\ SubSeq(s, Len(s) - Len(suffix) + 1, Len(s)) = suffix

\* The words of the wire vocabulary and of the codec's switch labels.
w_relaxed == <<"r","e","l","a","x","e","d">>
w_strict == <<"s","t","r","i","c","t">>
w_r == <<"r">>
w_s == <<"s">>
w_none == <<"n","o","n","e">>
w_quarantine == <<"q","u","a","r","a","n","t","i","n","e">>
w_reject == <<"r","e","j","e","c","t">>
w_pass == <<"p","a","s","s">>
w_fail == <<"f","a","i","l">>
w_true == <<"t","r","u","e">>
w_false == <<"f","a","l","s","e">>
w_unknown == <<"u","n","k","n","o","w","n">>
w_forwarded == <<"f","o","r","w","a","r","d","e","d">>
w_sampled_out == <<"s","a","m","p","l","e","d","_","o","u","t">>
w_trusted_forwarder ==
    <<"t","r","u","s","t","e","d","_","f","o","r","w","a","r","d","e","r">>
w_mailing_list == <<"m","a","i","l","i","n","g","_","l","i","s","t">>
w_local_policy == <<"l","o","c","a","l","_","p","o","l","i","c","y">>
w_other == <<"o","t","h","e","r">>
w_policy == <<"p","o","l","i","c","y">>
w_neutral == <<"n","e","u","t","r","a","l">>
w_temperror == <<"t","e","m","p","e","r","r","o","r">>
w_permerror == <<"p","e","r","m","e","r","r","o","r">>
w_softfail == <<"s","o","f","t","f","a","i","l">>
w_helo == <<"h","e","l","o">>
w_mfrom == <<"m","f","r","o","m">>

\* fmt.Errorf(format, arg): the error keeps the format and its %q argument.
Errorf(format, arg) == [format |-> format, arg |-> arg]

\* The nil error.
Nil == Errorf("<nil>", <<>>)

\* errors.Wrap(err, message): the message, a colon, and the cause.
Wrap(err, message) == Errorf(message \o ": " \o err.format, err.arg)

----------------------------------------------------------------------------
(* package dmark: the enumerations *)

AlignmentRelaxed == 0
AlignmentStrict == 1

DispositionNone == 0
DispositionQuarantine == 1
DispositionReject == 2

PolicyOverrideForwarded == 0
PolicyOverrideSampledOut == 1
PolicyOverrideTrustedForwarder == 2
PolicyOverrideMailingList == 3
PolicyOverrideLocalPolicy == 4
PolicyOverrideOther == 5

DKIMResultNone == 0
DKIMResultPass == 1
DKIMResultFail == 2
DKIMResultPolicy == 3
DKIMResultNeutral == 4
DKIMResultTempError == 5
DKIMResultPermError == 6

SPFDomainScopeHelo == 0
SPFDomainScopeMFrom == 1

SPFResultNone == 0
SPFResultNeutral == 1
SPFResultPass == 2
SPFResultFail == 3
SPFResultSoftFail == 4
SPFResultTempError == 5
SPFResultPermError == 6

\* A MarshalText returns (text, err); an UnmarshalText returns err and
\* leaves the receiver at val.
Marshalled(text) == [text |-> text, err |-> Nil]
Assigned(v) == [val |-> v, err |-> Nil]
Rejected(v, format, text) == [val |-> v, err |-> Errorf(format, text)]

AlignmentMarshalText(a) ==
    CASE a = AlignmentRelaxed -> Marshalled(w_relaxed)
      [] a = AlignmentStrict -> Marshalled(w_strict)
      [] OTHER -> Marshalled(w_unknown)

\* A variant of AlignmentUnmarshalText that takes an unexpected token for the
\* zero member instead of rejecting it: the properties of the decoder's
\* error path must tell it from the code.
AlignmentUnmarshalTextCoercing(a, text) ==
    LET t == ToLower(text) IN
    CASE t = w_r -> Assigned(AlignmentRelaxed)
      [] t = w_s -> Assigned(AlignmentStrict)
      [] OTHER -> Assigned(AlignmentRelaxed)

AlignmentUnmarshalText(a, text) ==
    LET t == ToLower(text) IN
    CASE t = w_r -> Assigned(AlignmentRelaxed)
      [] t = w_s -> Assigned(AlignmentStrict)
      [] OTHER -> Rejected(a, "unexpected Alignment value %q", text)

\* A variant of DispositionMarshalText whose default branch returns the
\* token of the zero member.
DispositionMarshalTextDefaultNone(disp) ==
    CASE disp = DispositionNone -> Marshalled(w_none)
      [] disp = DispositionQuarantine -> Marshalled(w_quarantine)
      [] disp = DispositionReject -> Marshalled(w_reject)
      [] OTHER -> Marshalled(w_none)

DispositionMarshalText(disp) ==
    CASE disp = DispositionNone -> Marshalled(w_none)
      [] disp = DispositionQuarantine -> Marshalled(w_quarantine)
      [] disp = DispositionReject -> Marshalled(w_reject)
      [] OTHER -> Marshalled(w_unknown)

DispositionUnmarshalText(disp, text) ==
    LET t == ToLower(text) IN
    CASE t = w_none -> Assigned(DispositionNone)
      [] t = w_quarantine -> Assigned(DispositionQuarantine)
      [] t = w_reject -> Assigned(DispositionReject)
      [] OTHER -> Rejected(disp, "unexpected Disposition value %q", text)

\* The switch reads the named result `text`, which is still nil (the empty
\* string) when it is evaluated; the receiver r is never read.
ResultMarshalText(r) ==
    LET text == <<>> IN
    CASE ToLower(text) = w_true -> Marshalled(w_true)
      [] OTHER -> Marshalled(w_false)

ResultUnmarshalText(r, text) == Assigned(ToLower(text) = w_pass)

PolicyOverrideMarshalText(po) ==
    CASE po = PolicyOverrideForwarded -> Marshalled(w_forwarded)
      [] po = PolicyOverrideSampledOut -> Marshalled(w_sampled_out)
      [] po = PolicyOverrideTrustedForwarder -> Marshalled(w_trusted_forwarder)
      [] po = PolicyOverrideMailingList -> Marshalled(w_mailing_list)
      [] po = PolicyOverrideLocalPolicy -> Marshalled(w_local_policy)
      [] po = PolicyOverrideOther -> Marshalled(w_other)
      [] OTHER -> Marshalled(w_unknown)

\* A variant of PolicyOverrideUnmarshalText that switches on the text as
\* given, without strings.ToLower.
PolicyOverrideUnmarshalTextExactCase(po, text) ==
    LET t == text IN
    CASE t = w_forwarded -> Assigned(PolicyOverrideForwarded)
      [] t = w_sampled_out -> Assigned(PolicyOverrideSampledOut)
      [] t = w_trusted_forwarder -> Assigned(PolicyOverrideTrustedForwarder)
      [] t = w_mailing_list -> Assigned(PolicyOverrideMailingList)
      [] t = w_local_policy -> Assigned(PolicyOverrideLocalPolicy)
      [] t = w_other -> Assigned(PolicyOverrideOther)
      [] OTHER -> Rejected(po, "unexpected PolicyOverride value %q", text)

PolicyOverrideUnmarshalText(po, text) ==
    LET t == ToLower(text) IN
    CASE t = w_forwarded -> Assigned(PolicyOverrideForwarded)
      [] t = w_sampled_out -> Assigned(PolicyOverrideSampledOut)
      [] t = w_trusted_forwarder -> Assigned(PolicyOverrideTrustedForwarder)
      [] t = w_mailing_list -> Assigned(PolicyOverrideMailingList)
      [] t = w_local_policy -> Assigned(PolicyOverrideLocalPolicy)
      [] t = w_other -> Assigned(PolicyOverrideOther)
      [] OTHER -> Rejected(po, "unexpected PolicyOverride value %q", text)

DKIMResultMarshalText(dkimr) ==
    CASE dkimr = DKIMResultNone -> Marshalled(w_none)
      [] dkimr = DKIMResultPass -> Marshalled(w_pass)
      [] dkimr = DKIMResultFail -> Marshalled(w_fail)
      [] dkimr = DKIMResultPolicy -> Marshalled(w_policy)
      [] dkimr = DKIMResultNeutral -> Marshalled(w_neutral)
      [] dkimr = DKIMResultTempError -> Marshalled(w_temperror)
      [] dkimr = DKIMResultPermError -> Marshalled(w_permerror)
      [] OTHER -> Marshalled(w_unknown)

DKIMResultUnmarshalText(dkimr, text) ==
    LET t == ToLower(text) IN
    CASE t = w_none -> Assigned(DKIMResultNone)
      [] t = w_pass -> Assigned(DKIMResultPass)
      [] t = w_fail -> Assigned(DKIMResultFail)
      [] t = w_policy -> Assigned(DKIMResultPolicy)
      [] t = w_neutral -> Assigned(DKIMResultNeutral)
      [] t = w_temperror -> Assigned(DKIMResultTempError)
      [] t = w_permerror -> Assigned(DKIMResultPermError)
      [] OTHER -> Rejected(dkimr, "unexpected SPFResult value %q", text)

SPFDomainScopeMarshalText(sds) ==
    CASE sds = SPFDomainScopeHelo -> Marshalled(w_helo)
      [] sds = SPFDomainScopeMFrom -> Marshalled(w_mfrom)
      [] OTHER -> Marshalled(w_unknown)

SPFDomainScopeUnmarshalText(sds, text) ==
    LET t == ToLower(text) IN
    CASE t = w_helo -> Assigned(SPFDomainScopeHelo)
      [] t = w_mfrom -> Assigned(SPFDomainScopeMFrom)
      [] OTHER -> Rejected(sds, "unexpected SPFDomainScope value %q", text)

SPFResultMarshalText(spfr) ==
    CASE spfr = SPFResultNone -> Marshalled(w_none)
      [] spfr = SPFResultNeutral -> Marshalled(w_neutral)
      [] spfr = SPFResultPass -> Marshalled(w_pass)
      [] spfr = SPFResultFail -> Marshalled(w_fail)
      [] spfr = SPFResultSoftFail -> Marshalled(w_softfail)
      [] spfr = SPFResultTempError -> Marshalled(w_temperror)
      [] spfr = SPFResultPermError -> Marshalled(w_permerror)
      [] OTHER -> Marshalled(w_unknown)

SPFResultUnmarshalText(spfr, text) ==
    LET t == ToLower(text) IN
    CASE t = w_none -> Assigned(SPFResultNone)
      [] t = w_neutral -> Assigned(SPFResultNeutral)
      [] t = w_pass -> Assigned(SPFResultPass)
      [] t = w_fail -> Assigned(SPFResultFail)
      [] t = w_softfail -> Assigned(SPFResultSoftFail)
      [] t = w_temperror -> Assigned(SPFResultTempError)
      [] t = w_permerror -> Assigned(SPFResultPermError)
      [] OTHER -> Rejected(spfr, "unexpected SPFResult value %q", text)

----------------------------------------------------------------------------
(* The codec's callers: one variable of an enumeration type, converted from *)
(* a number, encoded and decoded.                                           *)

Enums ==
    {"Alignment", "Disposition", "Result", "PolicyOverride", "DKIMResult",
     "SPFDomainScope", "SPFResult"}

IntEnums == Enums \ {"Result"}

\* The last member of each integer-backed enumeration.
LastMember(E) ==
    CASE E = "Alignment" -> AlignmentStrict
      [] E = "Disposition" -> DispositionReject
      [] E = "PolicyOverride" -> PolicyOverrideOther
      [] E = "DKIMResult" -> DKIMResultPermError
      [] E = "SPFDomainScope" -> SPFDomainScopeMFrom
      [] E = "SPFResult" -> SPFResultPermError

Members(E) == IF E = "Result" THEN BOOLEAN ELSE 0..LastMember(E)

\* The zero value of a Go variable of type E.
Zero(E) == IF E = "Result" THEN FALSE ELSE 0

\* The values a conversion E(n) can give a variable of type E.
Values(E) ==
    IF E = "Result" THEN BOOLEAN ELSE (0 - CastSlack)..(LastMember(E) + CastSlack)

\* The method the Go compiler selects for a receiver of type E.
MarshalText(E, v) ==
    CASE E = "Alignment" -> AlignmentMarshalText(v)
      [] E = "Disposition" -> DispositionMarshalText(v)
      [] E = "Result" -> ResultMarshalText(v)
      [] E = "PolicyOverride" -> PolicyOverrideMarshalText(v)
      [] E = "DKIMResult" -> DKIMResultMarshalText(v)
      [] E = "SPFDomainScope" -> SPFDomainScopeMarshalText(v)
      [] E = "SPFResult" -> SPFResultMarshalText(v)

UnmarshalText(E, v, text) ==
    CASE E = "Alignment" -> AlignmentUnmarshalText(v, text)
      [] E = "Disposition" -> DispositionUnmarshalText(v, text)
      [] E = "Result" -> ResultUnmarshalText(v, text)
      [] E = "PolicyOverride" -> PolicyOverrideUnmarshalText(v, text)
      [] E = "DKIMResult" -> DKIMResultUnmarshalText(v, text)
      [] E = "SPFDomainScope" -> SPFDomainScopeUnmarshalText(v, text)
      [] E = "SPFResult" -> SPFResultUnmarshalText(v, text)

\* The words the callers pass in: every word of the vocabulary, and words
\* outside all of them.
Words ==
    {w_relaxed, w_strict, w_r, w_s, w_none, w_quarantine, w_reject, w_pass,
     w_fail, w_true, w_false, w_unknown, w_forwarded, w_sampled_out,
     w_trusted_forwarder, w_mailing_list, w_local_policy, w_other, w_policy,
     w_neutral, w_temperror, w_permerror, w_softfail, w_helo, w_mfrom,
     <<>>, <<"x">>, <<"p","a","s">>, <<"n","o","n","e","e">>,
     <<"p","a","s","s"," ">>, <<"r","e","l","a","x">>,
     <<"f","a",CapitalDottedI,"l">>}

RECURSIVE Pow2(_)
Pow2(n) == IF n = 0 THEN 1 ELSE 2 * Pow2(n - 1)

Masks == 0..(Pow2(MaskBits) - 1)

Bit(m, k) == (m \div Pow2(k)) % 2

\* Word w with the letters the pattern m selects in upper case.
Recase(w, m) ==
    [i \in 1..Len(w) |->
        IF Bit(m, (i - 1) % MaskBits) = 1 THEN ToUpperRune(w[i]) ELSE w[i]]

Tokens == {Recase(w, m) : w \in Words, m \in Masks}

NoCall == [op |-> "none", arg |-> <<>>, pre |-> FALSE, fed |-> FALSE]

NoRet == [text |-> <<>>, err |-> Nil]

\* x = E(n)
Convert ==
    \E v \in Values(target.enum) :
        /\ target' = [target EXCEPT !.value = v]
        /\ ret' = NoRet
        /\ call' = [op |-> "convert", arg |-> <<>>, pre |-> target.value,
                    fed |-> FALSE]
        /\ UNCHANGED <<driverVars, readerVars>>

\* text, err = x.MarshalText(), as the state after the call
Encode(m) ==
    /\ ret' = m
    /\ call' = [op |-> "MarshalText", arg |-> <<>>, pre |-> target.value,
                fed |-> FALSE]
    /\ UNCHANGED <<target, driverVars, readerVars>>

\* The texts a caller decodes: its own tokens, and the text the preceding
\* MarshalText returned.
Inputs == Tokens \cup (IF call.op = "MarshalText" THEN {ret.text} ELSE {})

\* err = x.UnmarshalText(text), as the state after the call; call.fed says
\* that text is what the preceding MarshalText returned.
Decode(text, u) ==
    /\ target' = [target EXCEPT !.value = u.val]
    /\ ret' = [text |-> <<>>, err |-> u.err]
    /\ call' = [op |-> "UnmarshalText", arg |-> text, pre |-> target.value,
                fed |-> (call.op = "MarshalText" /\ text = ret.text)]
    /\ UNCHANGED <<driverVars, readerVars>>

AlignmentMarshal ==
    /\ target.enum = "Alignment"
    /\ Encode(AlignmentMarshalText(target.value))

AlignmentUnmarshal ==
    /\ target.enum = "Alignment"
    /\ \E text \in Inputs : Decode(text, AlignmentUnmarshalText(target.value, text))

DispositionMarshal ==
    /\ target.enum = "Disposition"
    /\ Encode(DispositionMarshalText(target.value))

DispositionUnmarshal ==
    /\ target.enum = "Disposition"
    /\ \E text \in Inputs : Decode(text, DispositionUnmarshalText(target.value, text))

ResultMarshal ==
    /\ target.enum = "Result"
    /\ Encode(ResultMarshalText(target.value))

ResultUnmarshal ==
    /\ target.enum = "Result"
    /\ \E text \in Inputs : Decode(text, ResultUnmarshalText(target.value, text))

PolicyOverrideMarshal ==
    /\ target.enum = "PolicyOverride"
    /\ Encode(PolicyOverrideMarshalText(target.value))

PolicyOverrideUnmarshal ==
    /\ target.enum = "PolicyOverride"
    /\ \E text \in Inputs : Decode(text, PolicyOverrideUnmarshalText(target.value, text))

DKIMResultMarshal ==
    /\ target.enum = "DKIMResult"
    /\ Encode(DKIMResultMarshalText(target.value))

DKIMResultUnmarshal ==
    /\ target.enum = "DKIMResult"
    /\ \E text \in Inputs : Decode(text, DKIMResultUnmarshalText(target.value, text))

SPFDomainScopeMarshal ==
    /\ target.enum = "SPFDomainScope"
    /\ Encode(SPFDomainScopeMarshalText(target.value))

SPFDomainScopeUnmarshal ==
    /\ target.enum = "SPFDomainScope"
    /\ \E text \in Inputs : Decode(text, SPFDomainScopeUnmarshalText(target.value, text))

SPFResultMarshal ==
    /\ target.enum = "SPFResult"
    /\ Encode(SPFResultMarshalText(target.value))

SPFResultUnmarshal ==
    /\ target.enum = "SPFResult"
    /\ \E text \in Inputs : Decode(text, SPFResultUnmarshalText(target.value, text))

NextCodec ==
    \/ Convert
    \/ AlignmentMarshal
    \/ AlignmentUnmarshal
    \/ DispositionMarshal
    \/ DispositionUnmarshal
    \/ ResultMarshal
    \/ ResultUnmarshal
    \/ PolicyOverrideMarshal
    \/ PolicyOverrideUnmarshal
    \/ DKIMResultMarshal
    \/ DKIMResultUnmarshal
    \/ SPFDomainScopeMarshal
    \/ SPFDomainScopeUnmarshal
    \/ SPFResultMarshal
    \/ SPFResultUnmarshal

----------------------------------------------------------------------------
(* encoding/xml and encoding/json over the struct tags of package dmark.    *)
(* The leaves of a report with one record and one SPF result that are       *)
(* modelled: a required and an optional string, and the enumerated fields   *)
(* of policy_published and auth_results/spf.                                *)

\* name: the xml and json key; type: the Go type; omitempty: the tag option.
Fields ==
    <<[name |-> "org_name", type |-> "string", omitempty |-> FALSE],
      [name |-> "extra_contact_info", type |-> "string", omitempty |-> TRUE],
      [name |-> "adkim", type |-> "Alignment", omitempty |-> TRUE],
      [name |-> "p", type |-> "Disposition", omitempty |-> FALSE],
      [name |-> "scope", type |-> "SPFDomainScope", omitempty |-> FALSE],
      [name |-> "result", type |-> "SPFResult", omitempty |-> FALSE]>>

FieldNames == {Fields[i].name : i \in 1..Len(Fields)}

FieldOf(name) == Fields[CHOOSE i \in 1..Len(Fields) : Fields[i].name = name]

\* An element of a document is absent, <<>>, or present with its character
\* data, <<text>>.
Absent == <<>>
Present(text) == <<text>>

\* The zero value of a field's Go type.
ZeroField(f) == IF f.type = "string" THEN <<>> ELSE Zero(f.type)

ZeroFeedback == [n \in FieldNames |-> ZeroField(FieldOf(n))]

\* What decoding element i of document d does to its field: a string field
\* takes the character data, an enumerated one goes through UnmarshalText.
DecodeField(d, i) ==
    LET f == Fields[i]
        e == d.elems[f.name]
    IN  IF e = Absent THEN [val |-> ZeroField(f), err |-> Nil]
        ELSE IF f.type = "string" THEN [val |-> e[1], err |-> Nil]
        ELSE UnmarshalText(f.type, Zero(f.type), e[1])

\* xml.Unmarshal(content, &feedback): a document that is not well-formed is
\* a syntax error; an element that is absent leaves its field at the zero
\* value; the first UnmarshalText error ends the decode and is returned, the
\* fields before it assigned.
XmlUnmarshal(d) ==
    IF ~d.wellformed THEN [fb |-> ZeroFeedback, err |-> Errorf("XML syntax error", <<>>)]
    ELSE LET bad == {i \in 1..Len(Fields) : DecodeField(d, i).err # Nil}
             first == CHOOSE i \in bad : \A j \in bad : i <= j
             upto == IF bad = {} THEN Len(Fields) ELSE first - 1
         IN  [fb |-> [n \in FieldNames |->
                        LET i == CHOOSE k \in 1..Len(Fields) : Fields[k].name = n
                        IN  IF i <= upto THEN DecodeField(d, i).val
                            ELSE ZeroField(Fields[i])],
              err |-> IF bad = {} THEN Nil ELSE DecodeField(d, first).err]

\* encoding/json's isEmptyValue: the zero number, the empty string.
IsEmptyValue(f, v) == IF f.type = "string" THEN v = <<>> ELSE v = 0

\* json.Marshal(feedback): a field tagged omitempty whose value is empty is
\* left out; a string is emitted as it is, an enumerated field as the text
\* its MarshalText returns.
JsonMarshal(fb) ==
    LET emitted == {n \in FieldNames :
                      ~(FieldOf(n).omitempty /\ IsEmptyValue(FieldOf(n), fb[n]))}
        enc(n) == IF FieldOf(n).type = "string" THEN Marshalled(fb[n])
                  ELSE MarshalText(FieldOf(n).type, fb[n])
    IN  IF \E n \in emitted : enc(n).err # Nil
        THEN [json |-> <<>>, err |-> Errorf("json: error calling MarshalText", <<>>)]
        ELSE [json |-> [n \in emitted |-> enc(n).text], err |-> Nil]

\* The documents on standard input.
StringValues == {Absent, Present(<<>>), Present(<<"x">>)}

Documents ==
    {[wellformed |-> wf,
      elems |-> [org_name |-> o, extra_contact_info |-> x, adkim |-> a,
                 p |-> p, scope |-> sc, result |-> r]] :
        wf \in BOOLEAN, o \in StringValues, x \in StringValues,
        a \in {Absent, Present(w_r), Present(w_s), Present(w_relaxed)},
        p \in {Absent, Present(w_none), Present(w_reject), Present(<<"x">>)},
        sc \in {Absent, Present(w_helo), Present(w_mfrom), Present(<<"x">>)},
        r \in {Absent, Present(w_pass), Present(w_fail)}}

NoDoc == [wellformed |-> FALSE, elems |-> [n \in FieldNames |-> Absent]]

NoOut == [json |-> <<>>, err |-> Nil]

\* run: xml.Unmarshal fails, run returns the wrapped error.
DriverUnmarshalFails ==
    /\ dpc = "start"
    /\ XmlUnmarshal(doc).err # Nil
    /\ feedback' = XmlUnmarshal(doc).fb
    /\ out' = [json |-> <<>>, err |-> Wrap(XmlUnmarshal(doc).err, "xml unmarshal")]
    /\ dpc' = "failed"
    /\ UNCHANGED <<doc, codecVars, readerVars>>

\* run: xml.Unmarshal succeeds.
DriverUnmarshal ==
    /\ dpc = "start"
    /\ XmlUnmarshal(doc).err = Nil
    /\ feedback' = XmlUnmarshal(doc).fb
    /\ dpc' = "decoded"
    /\ UNCHANGED <<doc, out, codecVars, readerVars>>

\* run: json.Marshal and fmt.Print, or the wrapped error.
DriverMarshal ==
    /\ dpc = "decoded"
    /\ LET j == JsonMarshal(feedback) IN
          IF j.err # Nil
          THEN /\ out' = [json |-> <<>>, err |-> Wrap(j.err, "json marshal")]
               /\ dpc' = "failed"
          ELSE /\ out' = j
               /\ dpc' = "done"
    /\ UNCHANGED <<doc, feedback, codecVars, readerVars>>

NextDriver ==
    \/ DriverUnmarshalFails
    \/ DriverUnmarshal
    \/ DriverMarshal

----------------------------------------------------------------------------
(* cmd/reports2html: readReports and run *)

\* The directories of the file system; dir may also name none of them.
Dirs == {"reports", "work"}

n_a_xml == <<"a",".","x","m","l">>
n_b_xml == <<"b",".","x","m","l">>
n_c_txt == <<"c",".","t","x","t">>
n_d_XML == <<"d",".","X","M","L">>

\* The file names, in the order ioutil.ReadDir sorts a listing.
FileNames == <<n_a_xml, n_b_xml, n_c_txt, n_d_XML>>

NameSet == {FileNames[i] : i \in 1..Len(FileNames)}

dot_xml == <<".","x","m","l">>

ReportDoc(org, p, wf) ==
    [wellformed |-> wf,
     elems |-> [org_name |-> Present(org), extra_contact_info |-> Absent,
                adkim |-> Present(w_r), p |-> Present(p),
                scope |-> Present(w_mfrom), result |-> Present(w_pass)]]

\* What a file holds: two reports that decode, one that is not well-formed
\* and one with a token no Disposition has.
GoodA == ReportDoc(<<"a">>, w_none, TRUE)
GoodB == ReportDoc(<<"b">>, w_reject, TRUE)
Malformed == ReportDoc(<<"m">>, w_none, FALSE)
BadToken == ReportDoc(<<"t">>, <<"x">>, TRUE)

XmlContents == {Absent, Present(GoodA), Present(GoodB), Present(Malformed),
                Present(BadToken)}

OtherContents == {Absent, Present(GoodA)}

\* ioutil.ReadDir(d): the names of the entries of d, sorted by name.
ReadDir(d) == SelectSeq(FileNames, LAMBDA n : fs[d][n] # Absent)

\* readReports: ioutil.ReadDir fails.
ReadDirFails ==
    /\ rpc = "start"
    /\ dir \notin Dirs
    /\ rerr' = Wrap(Errorf("no such file or directory", <<>>), "read dir")
    /\ rpc' = "returned"
    /\ UNCHANGED <<fs, dir, cwd, files, idx, result, reads,
                   codecVars, driverVars>>

\* readReports: the listing, and the empty result.
ReadDirOk ==
    /\ rpc = "start"
    /\ dir \in Dirs
    /\ files' = ReadDir(dir)
    /\ idx' = 1
    /\ result' = <<>>
    /\ rpc' = "loop"
    /\ UNCHANGED <<fs, dir, cwd, rerr, reads,
                   codecVars, driverVars>>

\* The loop body on an entry without the suffix: continue.
LoopSkip ==
    /\ rpc = "loop"
    /\ idx <= Len(files)
    /\ ~HasSuffix(files[idx], dot_xml)
    /\ idx' = idx + 1
    /\ UNCHANGED <<fs, dir, cwd, files, result, rerr, reads, rpc,
                   codecVars, driverVars>>

\* ioutil.ReadFile(f.Name()): the bare name, which the system resolves in
\* the working directory.
ReadFile(name) == fs[cwd][name]

\* The loop body: ReadFile fails, readReports returns what it has.
LoopReadFileFails ==
    /\ rpc = "loop"
    /\ idx <= Len(files)
    /\ HasSuffix(files[idx], dot_xml)
    /\ ReadFile(files[idx]) = Absent
    /\ reads' = reads \cup {<<cwd, files[idx]>>}
    /\ rerr' = Wrap(Errorf("no such file or directory", <<>>), "read file")
    /\ rpc' = "returned"
    /\ UNCHANGED <<fs, dir, cwd, files, idx, result,
                   codecVars, driverVars>>

\* The loop body: xml.Unmarshal fails, readReports returns what it has.
LoopUnmarshalFails ==
    /\ rpc = "loop"
    /\ idx <= Len(files)
    /\ HasSuffix(files[idx], dot_xml)
    /\ ReadFile(files[idx]) # Absent
    /\ XmlUnmarshal(ReadFile(files[idx])[1]).err # Nil
    /\ reads' = reads \cup {<<cwd, files[idx]>>}
    /\ rerr' = Wrap(XmlUnmarshal(ReadFile(files[idx])[1]).err, "xml unmarshal")
    /\ rpc' = "returned"
    /\ UNCHANGED <<fs, dir, cwd, files, idx, result,
                   codecVars, driverVars>>

\* The loop body: the decoded report is appended.
LoopAppend ==
    /\ rpc = "loop"
    /\ idx <= Len(files)
    /\ HasSuffix(files[idx], dot_xml)
    /\ ReadFile(files[idx]) # Absent
    /\ XmlUnmarshal(ReadFile(files[idx])[1]).err = Nil
    /\ reads' = reads \cup {<<cwd, files[idx]>>}
    /\ result' = Append(result, XmlUnmarshal(ReadFile(files[idx])[1]).fb)
    /\ idx' = idx + 1
    /\ UNCHANGED <<fs, dir, cwd, files, rerr, rpc,
                   codecVars, driverVars>>

\* The loop is over: return result, nil.
LoopEnd ==
    /\ rpc = "loop"
    /\ idx > Len(files)
    /\ rerr' = Nil
    /\ rpc' = "returned"
    /\ UNCHANGED <<fs, dir, cwd, files, idx, result, reads,
                   codecVars, driverVars>>

\* run: readReports returned an error, run returns it and nothing is rendered.
RunFails ==
    /\ rpc = "returned"
    /\ rerr # Nil
    /\ rpc' = "failed"
    /\ UNCHANGED <<fs, dir, cwd, files, idx, result, rerr, reads,
                   codecVars, driverVars>>

\* run: the reports go to executeTemplate.
RunRenders ==
    /\ rpc = "returned"
    /\ rerr = Nil
    /\ rpc' = "rendered"
    /\ UNCHANGED <<fs, dir, cwd, files, idx, result, rerr, reads,
                   codecVars, driverVars>>

NextReader ==
    \/ ReadDirFails
    \/ ReadDirOk
    \/ LoopSkip
    \/ LoopReadFileFails
    \/ LoopUnmarshalFails
    \/ LoopAppend
    \/ LoopEnd
    \/ RunFails
    \/ RunRenders

----------------------------------------------------------------------------
(* Specifications *)

\* A variable of one of the enumeration types at its zero value; the
\* driver and the reader are not running.
Init ==
    /\ target \in {[enum |-> E, value |-> Zero(E)] : E \in Enums}
    /\ ret = NoRet
    /\ call = NoCall
    /\ doc = NoDoc
    /\ feedback = ZeroFeedback
    /\ out = NoOut
    /\ dpc = "idle"
    /\ fs = [d \in Dirs |-> [n \in NameSet |-> Absent]]
    /\ dir = "reports"
    /\ cwd = "reports"
    /\ files = <<>>
    /\ idx = 0
    /\ result = <<>>
    /\ rerr = Nil
    /\ reads = {}
    /\ rpc = "idle"

\* The codec under its callers.
Spec == Init /\ [][NextCodec]_vars

\* One document on the driver's standard input.
InitDriver ==
    /\ target = [enum |-> "Alignment", value |-> AlignmentRelaxed]
    /\ ret = NoRet
    /\ call = NoCall
    /\ doc \in Documents
    /\ feedback = ZeroFeedback
    /\ out = NoOut
    /\ dpc = "start"
    /\ fs = [d \in Dirs |-> [n \in NameSet |-> Absent]]
    /\ dir = "reports"
    /\ cwd = "reports"
    /\ files = <<>>
    /\ idx = 0
    /\ result = <<>>
    /\ rerr = Nil
    /\ reads = {}
    /\ rpc = "idle"

\* The XML-to-JSON driver on one document.
SpecDriver == InitDriver /\ [][NextDriver]_vars

\* A file system, a directory argument and a working directory, at the
\* entry of readReports.
InitReader ==
    /\ target = [enum |-> "Alignment", value |-> AlignmentRelaxed]
    /\ ret = NoRet
    /\ call = NoCall
    /\ doc = NoDoc
    /\ feedback = ZeroFeedback
    /\ out = NoOut
    /\ dpc = "idle"
    /\ fs \in [Dirs -> {[n \in NameSet |->
                           CASE n = n_a_xml -> a
                             [] n = n_b_xml -> b
                             [] n = n_c_txt -> c
                             [] n = n_d_XML -> c] :
                        a \in XmlContents, b \in XmlContents,
                        c \in OtherContents}]
    /\ dir \in Dirs \cup {"missing"}
    /\ cwd \in Dirs
    /\ files = <<>>
    /\ idx = 0
    /\ result = <<>>
    /\ rerr = Nil
    /\ reads = {}
    /\ rpc = "start"

\* readReports and run on one file system.
SpecReader == InitReader /\ [][NextReader]_vars

----------------------------------------------------------------------------
(* Properties *)

\* The vocabulary the specification documents for each integer-backed
\* enumeration, in the order of its members.
DocumentedVocabulary(E) ==
    CASE E = "Alignment" -> <<w_relaxed, w_strict>>
      [] E = "Disposition" -> <<w_none, w_quarantine, w_reject>>
      [] E = "PolicyOverride" ->
            <<w_forwarded, w_sampled_out, w_trusted_forwarder, w_mailing_list,
              w_local_policy, w_other>>
      [] E = "DKIMResult" ->
            <<w_none, w_pass, w_fail, w_policy, w_neutral, w_temperror,
              w_permerror>>
      [] E = "SPFDomainScope" -> <<w_helo, w_mfrom>>
      [] E = "SPFResult" ->
            <<w_none, w_neutral, w_pass, w_fail, w_softfail, w_temperror,
              w_permerror>>

\* The same, with the tokens r and s of the report schema for Alignment.
WireVocabulary(E) ==
    IF E = "Alignment" THEN <<w_r, w_s>> ELSE DocumentedVocabulary(E)

\* The member a vocabulary gives a lowercase token.
MemberOf(vocabulary, t) == IndexIn(vocabulary, t) - 1

Decoded == call.op = "UnmarshalText"

Encoded == call.op = "MarshalText"

\* C1: for each of the seven enumerations and every defined member m,
\* UnmarshalText of the text MarshalText(m) returned succeeds and yields m.
C1_RoundTrip ==
    (Decoded /\ call.fed /\ call.pre \in Members(target.enum))
        => (ret.err = Nil /\ target.value = call.pre)

CaseInsensitiveDecode(vocabulary(_)) ==
    /\ (/\ Decoded
        /\ target.enum \in IntEnums
        /\ IsIn(vocabulary(target.enum), ToLower(call.arg)))
          => /\ ret.err = Nil
             /\ target.value =
                    MemberOf(vocabulary(target.enum), ToLower(call.arg))
    /\ (Decoded /\ target.enum = "Result")
          => /\ ret.err = Nil
             /\ target.value = (ToLower(call.arg) = w_pass)

C4_MarshalText ==
    (Encoded /\ target.enum \in IntEnums) =>
        /\ ret.err = Nil
        /\ target.value \in Members(target.enum) =>
              /\ IsIn(DocumentedVocabulary(target.enum), ret.text)
              /\ ret.text = ToLower(ret.text)
              /\ \A m \in Members(target.enum) \ {target.value} :
                    MarshalText(target.enum, m).text # ret.text
        /\ target.value \notin Members(target.enum) => ret.text = w_unknown

\* A Disposition converted from the number after its last member was
\* encoded, and the text is "unknown".
C4_Witness ==
    /\ Encoded
    /\ target.enum = "Disposition"
    /\ target.value = DispositionReject + 1
    /\ ret.text = w_unknown

\* C5: MarshalText of a Result holding true returns "true", of one holding
\* false "false".
C5_ResultEncodesItsValue ==
    (Encoded /\ target.enum = "Result")
        => ret.text = (IF target.value THEN w_true ELSE w_false)

\* C6: the error of a failed UnmarshalText of a strict enumeration names
\* that enumeration and carries the token as it was given.
C6_ErrorNamesEnumeration ==
    (Decoded /\ target.enum \in IntEnums /\ ret.err # Nil)
        => /\ ret.err.format = "unexpected " \o target.enum \o " value %q"
           /\ ret.err.arg = call.arg

\* The .xml entries of directory d, in listing order.
XmlEntries(d) == SelectSeq(ReadDir(d), LAMBDA n : HasSuffix(n, dot_xml))

\* C7: when readReports has returned, every .xml entry of the directory
\* that decodes is in the result, whatever the other entries hold. (Stated
\* for a directory that is the working directory, where every entry can be
\* read.)
C7_BadReportSkipped ==
    (rpc = "returned" /\ dir = cwd) =>
        \A i \in 1..Len(XmlEntries(dir)) :
            LET u == XmlUnmarshal(fs[dir][XmlEntries(dir)[i]][1]) IN
            u.err = Nil => \E j \in 1..Len(result) : result[j] = u.fb

\* The elements the specification does not mark optional and the struct
\* tags do not mark omitempty.
RequiredFields == {"org_name", "p", "scope", "result"}

\* C8: a decode that succeeded had every required element in the document.
C8_MissingRequiredFails ==
    dpc \in {"decoded", "done"} =>
        \A n \in RequiredFields : doc.elems[n] # Absent

\* The fields a document may omit.
OptionalFields == {"extra_contact_info", "adkim"}

\* C9: in the JSON the driver printed, a key is left out only for an
\* optional field that the document did not have, and an enumerated field
\* the document had is there as a lowercase token of its vocabulary.
C9_JsonProjection ==
    dpc = "done" =>
        \A n \in FieldNames :
            /\ n \notin DOMAIN out.json =>
                  (n \in OptionalFields /\ doc.elems[n] = Absent)
            /\ (doc.elems[n] # Absent /\ FieldOf(n).type # "string") =>
                  /\ n \in DOMAIN out.json
                  /\ out.json[n] = ToLower(out.json[n])
                  /\ IsIn(DocumentedVocabulary(FieldOf(n).type), out.json[n])

\* C10: a readReports that returned no error returns the decoded contents
\* of the .xml entries of dir, in listing order, and has read no path
\* outside dir.
C10_ReadsEntriesOfDir ==
    (rpc = "returned" /\ rerr = Nil) =>
        /\ Len(result) = Len(XmlEntries(dir))
        /\ \A i \in 1..Len(XmlEntries(dir)) :
              i <= Len(result) =>
                  result[i] = XmlUnmarshal(fs[dir][XmlEntries(dir)[i]][1]).fb
        /\ reads \subseteq {<<dir, n>> : n \in NameSet}

====
